---- MODULE Spec2Model ----
(***************************************************************************)
(* A model of the handle-based event emitter of package emission           *)
(* (src/emitter.go, lines 201-501): the listener registry, the handle      *)
(* counter, the max-listener warning, the recovery hook and the dispatch   *)
(* protocol of Emit (one goroutine per listener, joined by a WaitGroup)    *)
(* and EmitSync (the caller's own thread, deferred recovery).              *)
(*                                                                         *)
(* Every region of the code that runs between emitter.Lock() and           *)
(* emitter.Unlock() is one atomic action; reads and writes that the code   *)
(* makes outside the mutex (the recoverer field) are steps of their own.   *)
(***************************************************************************)
EXTENDS Integers, Sequences, FiniteSets, TLC

VARIABLES
  events,        \* emitter.events: event -> sequence of listenerRecord
  nextHandle,    \* emitter.nextHandle (uint32, kept as two 16-bit halves)
  recoverer,     \* emitter.recoverer: NoHook (nil) or Hook
  maxListeners,  \* emitter.maxListeners
  stdout,        \* number of warnings addListener has printed
  issued,        \* the handles addListener has returned, in order
  pc,            \* per calling thread: where it is inside Emit / EmitSync
  call,          \* per calling thread: the emission in flight
  units,         \* per calling thread: one dispatch unit per snapshot record
  wg,            \* per calling thread: the WaitGroup counter of its Emit
  crashed,       \* an unrecovered panic has ended the process
  started,       \* number of Emit / EmitSync calls made so far
  ran,           \* per handle: how often the listener body was entered
  inv,           \* per calling thread and handle: invocations made by its emission
  removed,       \* handles that a returned RemoveListener call took out of their event
  mutex,         \* emitter.Mutex: Free, or the thread that holds it
  hookLog,       \* the calls addListener has made of emitter.recoverer
  count,         \* per calling thread: the result GetListenerCount is returning
  cancelled,     \* one-shot handles removed by RemoveListener before they ever ran
  held,          \* per calling thread: the locked region it is inside, step by step
  thr            \* the throttle of the func-keyed emitter (lines 1-199) and its clock

vars == <<events, nextHandle, recoverer, maxListeners, stdout, issued,
          pc, call, units, wg, crashed, started, ran, inv, removed,
          mutex, hookLog, count, cancelled, held, thr>>

----------------------------------------------------------------------------
(* Bounds of the explored window.                                          *)

\* Registrations (AddListener / On / Once calls) explored.
MaxHandles == 2

\* Emit / EmitSync calls explored.
MaxEmits == 2

\* Ticks of the clock that the throttle reads.
MaxTime == 3

----------------------------------------------------------------------------
(* Program constants and input sets.                                       *)

DefaultMaxListeners == 10

\* ListenerHandle is a uint32. TLC's integers end at 2^31 - 1, so a handle is
\* the pair <<high half, low half>> of its 16-bit halves: <<0, 1>> is 1 and
\* <<65535, 65535>> is 2^32 - 1.
HalfModulus == 65536

ZeroHandle == <<0, 0>>

FirstHandle == <<0, 1>>

Threads == {"t1", "t2"}

EventNames == {"e1", "e2"}

\* Two callbacks, and a value whose reflect Kind is not Func.
Funcs == {"f", "g"}

NotFunc == "notFunc"

ListenerValues == Funcs \cup {NotFunc}

NoHook == "nil"

Hook == "hook"

\* Intervals given to Throttled, in ticks of the clock.
Intervals == {1, 2}

\* Arguments of SetMaxListeners that the model tries.
MaxChoices == {-1, 0}

Free == "free"

NoResult == [event |-> "none", n |-> 0]

\* No locked region in progress.
NoRegion == [op |-> "none", event |-> "none", fn |-> "none", isOnce |-> FALSE,
             handle |-> <<>>, stage |-> "none", readHandle |-> <<>>,
             readList |-> <<>>]

\* The handle-based emitter has no throttle.
NoThrottle == [interval |-> 0, now |-> 0, lastCalled |-> 0, calls |-> 0,
               runs |-> <<>>, pc |-> <<>>]

NoCall == [kind |-> "none", event |-> "none", snap |-> <<>>, reg |-> <<>>,
           hooked |-> FALSE, since |-> {}]

----------------------------------------------------------------------------
(* The registry as the code computes it.                                   *)

\* len(emitter.events[event]); a missing key reads as a nil slice.
ListenersOf(evs, e) == IF e \in DOMAIN evs THEN evs[e] ELSE <<>>

HandlesOf(s) == {s[i].handle : i \in DOMAIN s}

\* A count of the records of all events together.
GetListenerCountAll(evs, e) ==
  Cardinality(UNION {HandlesOf(evs[x]) : x \in DOMAIN evs})

GetListenerCountOf(evs, e) == IF e \in DOMAIN evs THEN Len(evs[e]) ELSE 0

\* The warning test with the comparison off by one.
ExceedsMaxOffByOne(max, n) == max # -1 /\ max < n

\* The test that makes addListener print its warning.
ExceedsMax(max, n) == max # -1 /\ max < n + 1

\* emitter.nextHandle + 1 on a uint32: the carry goes into the high half and
\* out of it.
NextHandleOf(h) ==
  IF h[2] + 1 < HalfModulus
    THEN <<h[1], h[2] + 1>>
    ELSE <<(h[1] + 1) % HalfModulus, 0>>

Range(s) == {s[i] : i \in DOMAIN s}

NewRecord(l, h, isOnce) == [fn |-> l, handle |-> h, isOnce |-> isOnce]

\* emitter.events[event] = append(emitter.events[event], rec)
AppendRecord(evs, e, rec) ==
  [x \in DOMAIN evs \cup {e} |->
     IF x = e THEN Append(ListenersOf(evs, e), rec) ELSE evs[x]]

\* The loop of RemoveListener with the comparison inverted.
KeepMatching(s, h) == SelectSeq(s, LAMBDA r : r.handle = h)

\* The loop of RemoveListener comparing the callbacks of the records, as the
\* emitter did before it had handles.
KeepOtherCallbacks(s, h) ==
  LET fns == {s[i].fn : i \in {j \in DOMAIN s : s[j].handle = h}} IN
  SelectSeq(s, LAMBDA r : r.fn \notin fns)

\* A loop of RemoveListener that keeps every record.
KeepAll(s, h) == s

\* A loop of RemoveListener that leaves one-shot records to their emission.
KeepOneShots(s, h) == SelectSeq(s, LAMBDA r : r.handle # h \/ r.isOnce)

\* A removal that moves the last record into the place of the removed one.
KeepOthersSwapping(s, h) ==
  IF \E k \in DOMAIN s : s[k].handle = h
    THEN LET k == CHOOSE k \in DOMAIN s : s[k].handle = h IN
         [i \in 1..(Len(s) - 1) |-> IF i = k THEN s[Len(s)] ELSE s[i]]
    ELSE s

\* The loop of RemoveListener: every record whose handle differs is kept.
KeepOthers(s, h) == SelectSeq(s, LAMBDA r : r.handle # h)

\* RemoveListener storing its new slice also when the event is unknown.
RemoveListenerStoring(evs, e, h) ==
  [x \in DOMAIN evs \cup {e} |->
     IF x = e THEN KeepOthers(ListenersOf(evs, e), h) ELSE evs[x]]

\* RemoveListener between Lock and Unlock.
RemoveListenerOf(evs, e, h) ==
  IF e \in DOMAIN evs /\ Len(evs[e]) # 0
    THEN [evs EXCEPT ![e] = KeepOthers(@, h)]
    ELSE evs

\* A snapshot that loses the first record.
SnapshotShort(evs, e) == SubSeq(evs[e], 2, Len(evs[e]))

\* listeners, ok = emitter.events[event]
Snapshot(evs, e) == evs[e]

\* A counter kept as a function with a growing domain.
Cnt(f, h) == IF h \in DOMAIN f THEN f[h] ELSE 0

Bump(f, h) == [x \in DOMAIN f \cup {h} |-> IF x = h THEN Cnt(f, h) + 1 ELSE f[x]]

NoCount == [h \in {} |-> 0]

Issued(h) == h \in Range(issued)

\* Handles a caller may pass to RemoveListener: the ones it was given, the
\* one that would be issued next and the first one of the emitter.
HandleInputs == Range(issued) \cup {NextHandleOf(nextHandle), FirstHandle}

----------------------------------------------------------------------------
(* NewEmitter: an empty registry, the default cap, no recovery hook.       *)

InitCallers ==
  /\ pc = [t \in Threads |-> "idle"]
  /\ call = [t \in Threads |-> NoCall]
  /\ units = [t \in Threads |-> <<>>]
  /\ wg = [t \in Threads |-> 0]
  /\ inv = [t \in Threads |-> NoCount]
  /\ crashed = "no"
  /\ started = 0
  /\ ran = NoCount
  /\ removed = {}
  /\ stdout = 0
  /\ mutex = Free
  /\ hookLog = <<>>
  /\ count = [t \in Threads |-> NoResult]
  /\ cancelled = {}
  /\ held = [t \in Threads |-> NoRegion]

NewEmitter ==
  /\ events = [e \in {} |-> <<>>]
  /\ nextHandle = ZeroHandle
  /\ recoverer = NoHook
  /\ maxListeners = DefaultMaxListeners

Init ==
  /\ NewEmitter
  /\ issued = <<>>
  /\ InitCallers
  /\ thr = NoThrottle

Idle(t) == crashed = "no" /\ pc[t] = "idle"

----------------------------------------------------------------------------
(* Registry operations.                                                    *)

\* A rejection that neither panics nor calls the hook.
RejectOutcomeSilent(l, r) ==
  IF l \in Funcs THEN "none" ELSE IF r = NoHook THEN "panic" ELSE "none"

\* if reflect.Func != fn.Kind(): panic(ErrNoneFunction) when no recovery hook
\* is set, else a call of the hook.
RejectOutcome(l, r) ==
  IF l \in Funcs THEN "none" ELSE IF r = NoHook THEN "panic" ELSE "hook"

\* The body of addListener between Lock and the deferred Unlock. After the
\* call of the hook the code goes on and registers the value.
Register(e, l, isOnce) ==
  /\ mutex = Free
  /\ Len(issued) < MaxHandles
  /\ LET out == RejectOutcome(l, recoverer) IN
     IF out = "panic"
       THEN /\ crashed' = "ErrNoneFunction"
            /\ UNCHANGED <<events, nextHandle, stdout, issued, hookLog>>
       ELSE /\ hookLog' = IF out = "hook"
                            THEN Append(hookLog, [event |-> e, listener |-> l,
                                                  err |-> "ErrNoneFunction"])
                            ELSE hookLog
            /\ stdout' = IF ExceedsMax(maxListeners, GetListenerCountOf(events, e))
                           THEN stdout + 1 ELSE stdout
            /\ nextHandle' = NextHandleOf(nextHandle)
            /\ events' = AppendRecord(events, e, NewRecord(l, nextHandle', isOnce))
            /\ issued' = Append(issued, nextHandle')
            /\ UNCHANGED crashed
  /\ UNCHANGED <<recoverer, maxListeners, started, removed, mutex, cancelled>>

\* addListener called by thread t from outside any listener.
addListener(t, e, l, isOnce) ==
  /\ Idle(t)
  /\ Register(e, l, isOnce)
  /\ UNCHANGED <<pc, call, units, wg, ran, inv, count, held, thr>>

AddListener(t, e, l) == addListener(t, e, l, FALSE)

On(t, e, l) == AddListener(t, e, l)

Once(t, e, l) == addListener(t, e, l, TRUE)

\* A one-shot record that has not run and that no emission in flight holds.
Pending(e, h) ==
  /\ \E r \in Range(ListenersOf(events, e)) : r.handle = h /\ r.isOnce
  /\ Cnt(ran, h) = 0
  /\ \A t \in Threads : h \notin HandlesOf(call[t].snap)

\* The body of RemoveListener between Lock and the deferred Unlock.
Unregister(e, h) ==
  /\ mutex = Free
  /\ events' = RemoveListenerOf(events, e, h)
  /\ removed' = IF h \in HandlesOf(ListenersOf(events, e))
                  THEN removed \cup {h} ELSE removed
  /\ cancelled' = IF Pending(e, h) THEN cancelled \cup {h} ELSE cancelled
  /\ UNCHANGED <<nextHandle, recoverer, maxListeners, stdout, issued,
                 crashed, started, mutex, hookLog>>

RemoveListener(t, e, h) ==
  /\ Idle(t)
  /\ Unregister(e, h)
  /\ UNCHANGED <<pc, call, units, wg, ran, inv, count, held, thr>>

Off(t, e, h) == RemoveListener(t, e, h)

\* A SetMaxListeners that cuts every list down to the new cap.
SetMaxListenersEvicting(t, max) ==
  /\ Idle(t)
  /\ mutex = Free
  /\ maxListeners' = max
  /\ events' = [e \in DOMAIN events |->
                  IF max # -1 /\ max < Len(events[e])
                    THEN SubSeq(events[e], 1, max) ELSE events[e]]
  /\ UNCHANGED <<nextHandle, recoverer, stdout, issued, pc, call,
                 units, wg, crashed, started, ran, inv, removed,
                 mutex, hookLog, count, cancelled, held, thr>>

SetMaxListeners(t, max) ==
  /\ Idle(t)
  /\ mutex = Free
  /\ maxListeners' = max
  /\ UNCHANGED <<events, nextHandle, recoverer, stdout, issued, pc, call,
                 units, wg, crashed, started, ran, inv, removed,
                 mutex, hookLog, count, cancelled, held, thr>>

\* GetListenerCount reads the length under the mutex; the count is the
\* result the caller gets, nothing of the emitter is written.
GetListenerCount(t, e) ==
  /\ Idle(t)
  /\ mutex = Free
  /\ count' = [count EXCEPT ![t] =
                 [event |-> e, n |-> GetListenerCountOf(events, e)]]
  /\ pc' = [pc EXCEPT ![t] = "counted"]
  /\ UNCHANGED <<events, nextHandle, recoverer, maxListeners, stdout, issued,
                 call, units, wg, crashed, started, ran, inv, removed,
                 mutex, hookLog, cancelled, held, thr>>

\* The caller has the count and goes on.
GetListenerCountReturn(t) ==
  /\ crashed = "no"
  /\ pc[t] = "counted"
  /\ pc' = [pc EXCEPT ![t] = "idle"]
  /\ count' = [count EXCEPT ![t] = NoResult]
  /\ UNCHANGED <<events, nextHandle, recoverer, maxListeners, stdout, issued,
                 call, units, wg, crashed, started, ran, inv, removed,
                 mutex, hookLog, cancelled, held, thr>>

\* RecoverWith writes the field without taking the mutex.
RecoverWith(t, r) ==
  /\ Idle(t)
  /\ recoverer' = r
  /\ call' = [u \in Threads |->
               IF r = NoHook THEN [call[u] EXCEPT !.hooked = FALSE] ELSE call[u]]
  /\ UNCHANGED <<events, nextHandle, maxListeners, stdout, issued, pc,
                 units, wg, crashed, started, ran, inv, removed,
                 mutex, hookLog, count, cancelled, held, thr>>

----------------------------------------------------------------------------
(* The locked regions of addListener and RemoveListener step by step: the  *)
(* Lock, the reads, the call of the hook, the writes and the Unlock. The   *)
(* atomic actions above are these steps run together, which is what the    *)
(* mutex makes of them.                                                    *)

\* A Lock that returns at once, whoever holds the mutex.
CanLockAlways(t) == TRUE

\* emitter.Lock() returns when no thread holds the mutex.
CanLock(t) == mutex = Free

\* The threads that are inside addListener.
Adding == {t \in Threads : held[t].op = "add"}

\* addListener from its Lock to the test of the listener's kind: a value
\* that is no function panics when no hook is set and is handed to the hook
\* otherwise, with the mutex held; a function goes on to the reads of the
\* list and of the counter.
addListenerLock(t, e, l, isOnce) ==
  /\ Idle(t)
  /\ CanLock(t)
  /\ Len(issued) + Cardinality(Adding) < MaxHandles
  /\ LET out == RejectOutcome(l, recoverer) IN
     IF out = "panic"
       THEN /\ crashed' = "ErrNoneFunction"
            /\ UNCHANGED <<mutex, pc, held, hookLog>>
       ELSE /\ mutex' = t
            /\ pc' = [pc EXCEPT ![t] = "locked"]
            /\ held' = [held EXCEPT ![t] =
                          [op |-> "add", event |-> e, fn |-> l,
                           isOnce |-> isOnce, handle |-> <<>>,
                           stage |-> IF out = "hook" THEN "hook" ELSE "read",
                           readHandle |-> nextHandle,
                           readList |-> ListenersOf(events, e)]]
            /\ hookLog' = IF out = "hook"
                            THEN Append(hookLog, [event |-> e, listener |-> l,
                                                  err |-> "ErrNoneFunction"])
                            ELSE hookLog
            /\ UNCHANGED crashed
  /\ UNCHANGED <<events, nextHandle, recoverer, maxListeners, stdout, issued,
                 call, units, wg, started, ran, inv, removed,
                 count, cancelled, thr>>

\* The hook that addListener called returns; addListener goes on to read the
\* list and the counter.
HookReturn(t) ==
  /\ crashed = "no"
  /\ pc[t] = "locked"
  /\ held[t].stage = "hook"
  /\ held' = [held EXCEPT ![t].stage = "read",
                          ![t].readHandle = nextHandle,
                          ![t].readList = ListenersOf(events, held[t].event)]
  /\ UNCHANGED <<events, nextHandle, recoverer, maxListeners, stdout, issued,
                 pc, call, units, wg, crashed, started, ran, inv, removed,
                 mutex, hookLog, count, cancelled, thr>>

\* The hook that addListener called calls emitter.RemoveListener(e, h).
RemoveListenerInHook(t, e, h) ==
  /\ crashed = "no"
  /\ pc[t] = "locked"
  /\ held[t].stage = "hook"
  /\ Unregister(e, h)
  /\ UNCHANGED <<pc, call, units, wg, ran, inv, count, held, thr>>

\* The writes of addListener (the warning, the counter, the list) and its
\* deferred Unlock.
addListenerUnlock(t) ==
  /\ crashed = "no"
  /\ pc[t] = "locked"
  /\ held[t].op = "add"
  /\ held[t].stage = "read"
  /\ LET r == held[t] IN
     /\ stdout' = IF ExceedsMax(maxListeners, Len(r.readList))
                    THEN stdout + 1 ELSE stdout
     /\ nextHandle' = NextHandleOf(r.readHandle)
     /\ events' = [x \in DOMAIN events \cup {r.event} |->
                     IF x = r.event
                       THEN Append(r.readList, NewRecord(r.fn, nextHandle', r.isOnce))
                       ELSE events[x]]
     /\ issued' = Append(issued, nextHandle')
  /\ mutex' = Free
  /\ pc' = [pc EXCEPT ![t] = "idle"]
  /\ held' = [held EXCEPT ![t] = NoRegion]
  /\ UNCHANGED <<recoverer, maxListeners, call, units, wg, crashed, started,
                 ran, inv, removed, hookLog, count, cancelled, thr>>

\* RemoveListener from its Lock to the read of the event's list.
RemoveListenerLock(t, e, h) ==
  /\ Idle(t)
  /\ CanLock(t)
  /\ mutex' = t
  /\ pc' = [pc EXCEPT ![t] = "locked"]
  /\ held' = [held EXCEPT ![t] =
                [op |-> "remove", event |-> e, fn |-> "none",
                 isOnce |-> FALSE, handle |-> h, stage |-> "read",
                 readHandle |-> <<>>,
                 readList |-> ListenersOf(events, e)]]
  /\ UNCHANGED <<events, nextHandle, recoverer, maxListeners, stdout, issued,
                 call, units, wg, crashed, started, ran, inv, removed,
                 hookLog, count, cancelled, thr>>

\* The loop of RemoveListener over the list it read, the store of the new
\* slice (skipped when the list was missing or empty) and the deferred
\* Unlock.
RemoveListenerUnlock(t) ==
  /\ crashed = "no"
  /\ pc[t] = "locked"
  /\ held[t].op = "remove"
  /\ LET r == held[t] IN
     /\ events' = IF Len(r.readList) # 0
                    THEN [events EXCEPT ![r.event] = KeepOthers(r.readList, r.handle)]
                    ELSE events
     /\ removed' = IF r.handle \in HandlesOf(r.readList)
                     THEN removed \cup {r.handle} ELSE removed
     /\ cancelled' = IF Pending(r.event, r.handle)
                       THEN cancelled \cup {r.handle} ELSE cancelled
  /\ mutex' = Free
  /\ pc' = [pc EXCEPT ![t] = "idle"]
  /\ held' = [held EXCEPT ![t] = NoRegion]
  /\ UNCHANGED <<nextHandle, recoverer, maxListeners, stdout, issued,
                 call, units, wg, crashed, started, ran, inv,
                 hookLog, count, thr>>

----------------------------------------------------------------------------
(* Emit and EmitSync: the snapshot under the mutex.                        *)

NewUnits(snap) ==
  [i \in 1..Len(snap) |-> [pc |-> "start", guarded |-> FALSE, hook |-> <<>>]]

\* A WaitGroup that counts one goroutine too few.
WaitCountShort(snap) == Len(snap) - 1

\* A WaitGroup that waits for a goroutine also when there is no listener.
WaitCountAtLeastOne(snap) == IF Len(snap) = 0 THEN 1 ELSE Len(snap)

\* wg.Add(len(listeners))
WaitCount(snap) == Len(snap)

\* An Unlock deferred to the return of the emission, as the other methods
\* have it.
UnlockAtReturn(t) == t

\* An emission that never gives the mutex back.
UnlockMissing(t) == "emitting"

\* emitter.Unlock() right after the read of the map, before any listener is
\* started.
UnlockAfterRead(t) == Free

\* Emit and EmitSync up to the Unlock that follows the read of the map.
\* An unknown event returns at once; a known one yields the snapshot, and
\* Emit adds its length to the WaitGroup.
EmitBegin(t, e, kind) ==
  /\ Idle(t)
  /\ mutex = Free
  /\ started < MaxEmits
  /\ started' = started + 1
  /\ IF e \notin DOMAIN events
       THEN UNCHANGED <<pc, call, units, wg, inv, mutex>>
       ELSE /\ call' = [call EXCEPT ![t] =
                          [kind |-> kind, event |-> e,
                           snap |-> Snapshot(events, e),
                           reg |-> ListenersOf(events, e),
                           hooked |-> recoverer # NoHook,
                           since |-> removed]]
            /\ units' = [units EXCEPT ![t] = NewUnits(Snapshot(events, e))]
            /\ wg' = [wg EXCEPT ![t] =
                        IF kind = "Emit" THEN WaitCount(Snapshot(events, e)) ELSE 0]
            /\ pc' = [pc EXCEPT ![t] = IF kind = "Emit" THEN "emitWait" ELSE "syncLoop"]
            /\ inv' = [inv EXCEPT ![t] = NoCount]
            /\ mutex' = UnlockAfterRead(t)
  /\ UNCHANGED <<events, nextHandle, recoverer, maxListeners, stdout,
                 issued, crashed, ran, removed, hookLog, count, cancelled, held, thr>>

Emit(t, e) == EmitBegin(t, e, "Emit")

EmitSync(t, e) == EmitBegin(t, e, "EmitSync")

----------------------------------------------------------------------------
(* The dispatch unit of one snapshot record: the body of the goroutine     *)
(* that Emit starts, and one iteration of the loop of EmitSync.            *)

\* Emit runs its units concurrently; EmitSync runs unit i when the units
\* before it have returned.
Runnable(t, i) ==
  /\ crashed = "no"
  /\ i \in DOMAIN units[t]
  /\ \/ pc[t] = "emitWait"
     \/ /\ pc[t] = "syncLoop"
        /\ \A j \in 1..(i - 1) : units[t][j].pc = "returned"

\* A unit that looks its record up in the emitter's list when it runs.
UnitRecordLive(t, i) ==
  LET live == ListenersOf(events, call[t].event) IN
  IF i \in DOMAIN live THEN live[i] ELSE call[t].snap[i]

\* The record unit i works on: the element of the snapshot, handed to the
\* goroutine by value.
UnitRecord(t, i) == call[t].snap[i]

\* Whether a deferred recover function is on the stack when unit i panics:
\* the goroutine's own in Emit, any earlier iteration's too in EmitSync.
Deferred(t, i, g) ==
  IF call[t].kind = "Emit"
    THEN g
    ELSE g \/ \E j \in 1..(i - 1) : units[t][j].guarded

\* A dispatch unit without its deferred recover.
FaultOutcomeUnrecovered(t, i, g) == "unrecovered"

\* A dispatch unit whose panics are always swallowed.
FaultOutcomeSwallowed(t, i, g) == "recovered"

\* What becomes of a panic in unit i: nothing recovers it, or the deferred
\* function recovers it and calls emitter.recoverer, which panics again when
\* the field is nil by then.
FaultOutcome(t, i, g) ==
  IF ~Deferred(t, i, g) THEN "unrecovered"
  ELSE IF recoverer = NoHook THEN "nilRecoverer"
  ELSE "recovered"

\* A recovery that hands the hook the first listener of the snapshot.
HookListenerFirst(t, i, g) == call[t].snap[1].fn

\* The listener the recovering deferred function hands to the hook: the fn of
\* its own closure, which is the unit's own in Emit and in a guarded
\* iteration of EmitSync, and the fn of the latest guarded iteration
\* otherwise.
HookListener(t, i, g) ==
  IF call[t].kind = "Emit" \/ g
    THEN UnitRecord(t, i).fn
    ELSE LET j == CHOOSE k \in 1..(i - 1) :
                    /\ units[t][k].guarded
                    /\ \A m \in (k + 1)..(i - 1) : ~units[t][m].guarded
         IN UnitRecord(t, j).fn

\* wg.Done() is deferred: it runs however the goroutine ends.
Done(t) == [wg EXCEPT ![t] = IF call[t].kind = "Emit" THEN @ - 1 ELSE @]

Fault(t, i, g, err) ==
  LET out == FaultOutcome(t, i, g) IN
  /\ units' = [units EXCEPT ![t][i] =
                 [pc |-> IF out = "recovered" THEN "recovered" ELSE "died",
                  guarded |-> g,
                  hook |-> IF out = "recovered"
                             THEN <<[event |-> call[t].event,
                                     listener |-> HookListener(t, i, g),
                                     err |-> err]>>
                             ELSE <<>>]]
  /\ crashed' = IF out = "recovered" THEN crashed ELSE out
  /\ wg' = Done(t)
  /\ pc' = [pc EXCEPT ![t] =
              IF call[t].kind = "EmitSync" /\ out = "recovered"
                THEN "syncUnwound" ELSE @]
  /\ inv' = [inv EXCEPT ![t] = Bump(@, UnitRecord(t, i).handle)]

\* A unit that calls a one-shot listener without removing its record first.
AfterMarshalKeeping(rec) == "call"

\* Where a unit goes once the arguments are converted: a one-shot record is
\* removed from the registry before its callback is called.
AfterMarshal(rec) == IF rec.isOnce THEN "remove" ELSE "call"

\* The unit reads emitter.recoverer to decide on its deferred recover, then
\* converts the arguments; a nil argument past the listener's parameters
\* panics here, before a one-shot record is removed.
UnitStart(t, i) ==
  /\ Runnable(t, i)
  /\ units[t][i].pc = "start"
  /\ LET g == recoverer # NoHook IN
     \E bad \in BOOLEAN :
       IF bad
         THEN Fault(t, i, g, "mismatch")
         ELSE /\ units' = [units EXCEPT ![t][i] =
                            [pc |-> AfterMarshal(UnitRecord(t, i)),
                             guarded |-> g, hook |-> <<>>]]
              /\ UNCHANGED <<crashed, wg, pc, inv>>
  /\ UNCHANGED <<events, nextHandle, recoverer, maxListeners, stdout,
                 issued, call, started, ran, removed,
                 mutex, hookLog, count, cancelled, held, thr>>

\* if listenerRec.isOnce { emitter.RemoveListener(event, listenerRec.handle) }
UnitRemove(t, i) ==
  /\ Runnable(t, i)
  /\ units[t][i].pc = "remove"
  /\ mutex = Free
  /\ events' = RemoveListenerOf(events, call[t].event, UnitRecord(t, i).handle)
  /\ units' = [units EXCEPT ![t][i].pc = "call"]
  /\ UNCHANGED <<nextHandle, recoverer, maxListeners, stdout, issued, pc,
                 call, wg, crashed, started, ran, inv, removed,
                 mutex, hookLog, count, cancelled, held, thr>>

\* fn.Call(values) returns, panics inside the listener, or panics before
\* entering it because the arguments do not fit (always so for a value that
\* is no function).
CallOutcomes(l) ==
  IF l = NotFunc THEN {"mismatch"} ELSE {"return", "panic", "mismatch"}

\* The outcomes left to a listener whose body is already running.
BodyOutcomes == {"return", "panic"}

UnitCall(t, i) ==
  /\ Runnable(t, i)
  /\ units[t][i].pc \in {"call", "body"}
  /\ LET rec == UnitRecord(t, i) IN
     \E out \in IF units[t][i].pc = "body" THEN BodyOutcomes ELSE CallOutcomes(rec.fn) :
       /\ ran' = IF out = "mismatch" \/ units[t][i].pc = "body"
                   THEN ran ELSE Bump(ran, rec.handle)
       /\ IF out = "return"
            THEN /\ units' = [units EXCEPT ![t][i].pc = "returned"]
                 /\ wg' = Done(t)
                 /\ inv' = [inv EXCEPT ![t] = Bump(@, rec.handle)]
                 /\ UNCHANGED <<crashed, pc>>
            ELSE Fault(t, i, units[t][i].guarded, out)
  /\ UNCHANGED <<events, nextHandle, recoverer, maxListeners, stdout,
                 issued, call, started, removed,
                 mutex, hookLog, count, cancelled, held, thr>>

----------------------------------------------------------------------------
(* Calls that a listener body makes on its own emitter while it runs.      *)

\* The body of the listener of unit i is running (fn.Call has not come back).
InListener(t, i) ==
  /\ Runnable(t, i)
  /\ units[t][i].pc \in {"call", "body"}

\* The first call a body makes shows that fn.Call has entered it.
EnterBody(t, i) ==
  /\ units' = [units EXCEPT ![t][i].pc = "body"]
  /\ ran' = IF units[t][i].pc = "call"
              THEN Bump(ran, UnitRecord(t, i).handle) ELSE ran

\* emitter.AddListener(e, l) called from inside the listener of unit i.
AddListenerIn(t, i, e, l) ==
  /\ InListener(t, i)
  /\ UnitRecord(t, i).fn \in Funcs
  /\ Register(e, l, FALSE)
  /\ EnterBody(t, i)
  /\ UNCHANGED <<pc, call, wg, inv, count, held, thr>>

\* emitter.RemoveListener(e, h) called from inside the listener of unit i.
RemoveListenerIn(t, i, e, h) ==
  /\ InListener(t, i)
  /\ UnitRecord(t, i).fn \in Funcs
  /\ Unregister(e, h)
  /\ EnterBody(t, i)
  /\ UNCHANGED <<pc, call, wg, inv, count, held, thr>>

\* emitter.GetListenerCount(e) called from inside the listener of unit i;
\* the count stays with the emission of thread t until it ends.
GetListenerCountIn(t, i, e) ==
  /\ InListener(t, i)
  /\ UnitRecord(t, i).fn \in Funcs
  /\ mutex = Free
  /\ count' = [count EXCEPT ![t] =
                 [event |-> e, n |-> GetListenerCountOf(events, e)]]
  /\ EnterBody(t, i)
  /\ UNCHANGED <<events, nextHandle, recoverer, maxListeners, stdout, issued,
                 pc, call, wg, crashed, started, inv, removed,
                 mutex, hookLog, cancelled, held, thr>>

\* emitter.SetMaxListeners(max) called from inside the listener of unit i.
SetMaxListenersIn(t, i, max) ==
  /\ InListener(t, i)
  /\ UnitRecord(t, i).fn \in Funcs
  /\ mutex = Free
  /\ maxListeners' = max
  /\ EnterBody(t, i)
  /\ UNCHANGED <<events, nextHandle, recoverer, stdout, issued,
                 pc, call, wg, crashed, started, inv, removed,
                 mutex, hookLog, count, cancelled, held, thr>>

\* emitter.Emit(e) called from inside the listener of unit i for an event
\* that has no entry in the map: the call locks, reads, unlocks and returns.
EmitIn(t, i, e) ==
  /\ InListener(t, i)
  /\ UnitRecord(t, i).fn \in Funcs
  /\ mutex = Free
  /\ e \notin DOMAIN events
  /\ started < MaxEmits
  /\ started' = started + 1
  /\ EnterBody(t, i)
  /\ UNCHANGED <<events, nextHandle, recoverer, maxListeners, stdout, issued,
                 pc, call, wg, crashed, inv, removed,
                 mutex, hookLog, count, cancelled, held, thr>>

----------------------------------------------------------------------------
(* The end of an emission.                                                 *)

Leave(t) ==
  /\ pc' = [pc EXCEPT ![t] = "idle"]
  /\ call' = [call EXCEPT ![t] = NoCall]
  /\ units' = [units EXCEPT ![t] = <<>>]
  /\ inv' = [inv EXCEPT ![t] = NoCount]
  /\ count' = [count EXCEPT ![t] = NoResult]
  /\ UNCHANGED <<events, nextHandle, recoverer, maxListeners, stdout,
                 issued, wg, crashed, started, ran, removed,
                 mutex, hookLog, cancelled, held, thr>>

\* The value the emission of thread t hands back when it returns: the
\* emitter at `return emitter`, and the zero value of the unnamed *Emitter
\* result, nil, when a deferred function of EmitSync has recovered a panic
\* and the call returns by unwinding.
ResultOf(t) == IF pc[t] = "syncUnwound" THEN "nil" ELSE "emitter"

\* wg.Wait() and the return of Emit.
EmitReturn(t) ==
  /\ crashed = "no"
  /\ pc[t] = "emitWait"
  /\ wg[t] = 0
  /\ Leave(t)

\* EmitSync returns the emitter after its last iteration; when a deferred
\* function has recovered a panic it returns the zero value of its result.
EmitSyncReturn(t) ==
  /\ crashed = "no"
  /\ \/ /\ pc[t] = "syncLoop"
        /\ \A i \in DOMAIN units[t] : units[t][i].pc = "returned"
        /\ Leave(t)
     \/ /\ pc[t] = "syncUnwound"
        /\ Leave(t)

----------------------------------------------------------------------------

\* Two calling threads working on one event with function listeners: the
\* registry calls, RecoverWith and the two kinds of emission, interleaved.
Next ==
  \/ \E t \in Threads, l \in Funcs :
        \/ AddListener(t, "e1", l)
        \/ On(t, "e1", l)
        \/ Once(t, "e1", l)
  \/ \E t \in Threads, h \in HandleInputs :
        \/ RemoveListener(t, "e1", h)
        \/ Off(t, "e1", h)
  \/ \E t \in Threads : GetListenerCount(t, "e1") \/ GetListenerCountReturn(t)
  \/ \E t \in Threads, r \in {NoHook, Hook} : RecoverWith(t, r)
  \/ \E t \in Threads : Emit(t, "e1") \/ EmitSync(t, "e1")
  \/ \E t \in Threads, i \in 1..MaxHandles :
        UnitStart(t, i) \/ UnitRemove(t, i) \/ UnitCall(t, i)
  \/ \E t \in Threads : EmitReturn(t) \/ EmitSyncReturn(t)

Spec == Init /\ [][Next]_vars

\* One calling thread using the whole interface on two events, with values
\* that are no functions among the listeners; the goroutines of its Emit
\* still run concurrently with each other.
NextSeq ==
  \/ \E e \in EventNames, l \in ListenerValues :
        \/ AddListener("t1", e, l)
        \/ On("t1", e, l)
        \/ Once("t1", e, l)
  \/ \E e \in EventNames, h \in HandleInputs :
        \/ RemoveListener("t1", e, h)
        \/ Off("t1", e, h)
  \/ \E max \in MaxChoices : SetMaxListeners("t1", max)
  \/ \E e \in EventNames : GetListenerCount("t1", e)
  \/ GetListenerCountReturn("t1")
  \/ \E r \in {NoHook, Hook} : RecoverWith("t1", r)
  \/ \E e \in EventNames : Emit("t1", e) \/ EmitSync("t1", e)
  \/ \E i \in 1..MaxHandles :
        UnitStart("t1", i) \/ UnitRemove("t1", i) \/ UnitCall("t1", i)
  \/ EmitReturn("t1") \/ EmitSyncReturn("t1")

SpecSeq == Init /\ [][NextSeq]_vars

\* An emitter that has lived long: 2^32 - 1 registrations have been made on
\* "e1" and all but the first have been removed again, so the counter stands
\* at 2^32 - 1 and the record with handle 1 is still registered.
InitWrap ==
  /\ events = [e \in {"e1"} |-> <<NewRecord("f", FirstHandle, FALSE)>>]
  /\ nextHandle = <<HalfModulus - 1, HalfModulus - 1>>
  /\ recoverer = NoHook
  /\ maxListeners = DefaultMaxListeners
  /\ issued = <<>>
  /\ InitCallers
  /\ thr = NoThrottle

SpecWrap == InitWrap /\ [][NextSeq]_vars

\* Thread "t1" emits on "e1" and its listeners call AddListener,
\* RemoveListener, GetListenerCount, SetMaxListeners and Emit on the emitter
\* while they run; between emissions either thread registers and removes
\* listeners.
NextListener ==
  \/ \E t \in Threads, l \in Funcs :
        AddListener(t, "e1", l) \/ Once(t, "e1", l)
  \/ \E t \in Threads, h \in HandleInputs : RemoveListener(t, "e1", h)
  \/ \E r \in {NoHook, Hook} : RecoverWith("t1", r)
  \/ Emit("t1", "e1") \/ EmitSync("t1", "e1")
  \/ \E i \in 1..MaxHandles :
        UnitStart("t1", i) \/ UnitRemove("t1", i) \/ UnitCall("t1", i)
  \/ \E i \in 1..MaxHandles, l \in Funcs : AddListenerIn("t1", i, "e1", l)
  \/ \E i \in 1..MaxHandles, h \in HandleInputs : RemoveListenerIn("t1", i, "e1", h)
  \/ \E i \in 1..MaxHandles : GetListenerCountIn("t1", i, "e1")
  \/ \E i \in 1..MaxHandles, max \in MaxChoices : SetMaxListenersIn("t1", i, max)
  \/ \E i \in 1..MaxHandles : EmitIn("t1", i, "e2")
  \/ EmitReturn("t1") \/ EmitSyncReturn("t1")

SpecListener == Init /\ [][NextListener]_vars

\* Two threads whose registrations and removals on "e1" are taken step by
\* step through their locked regions, beside SetMaxListeners, RecoverWith
\* and the Emit calls of thread "t2"; a value that is no function is among
\* the listeners.
NextLock ==
  \/ \E t \in Threads, l \in {"f", NotFunc}, o \in BOOLEAN :
        addListenerLock(t, "e1", l, o)
  \/ \E t \in Threads : HookReturn(t)
  \/ \E t \in Threads : addListenerUnlock(t)
  \/ \E t \in Threads, h \in HandleInputs : RemoveListenerLock(t, "e1", h)
  \/ \E t \in Threads : RemoveListenerUnlock(t)
  \/ \E t \in Threads : SetMaxListeners(t, 0)
  \/ \E t \in Threads, r \in {NoHook, Hook} : RecoverWith(t, r)
  \/ Emit("t2", "e1")
  \/ \E i \in 1..MaxHandles :
        UnitStart("t2", i) \/ UnitRemove("t2", i) \/ UnitCall("t2", i)
  \/ EmitReturn("t2")

SpecLock == Init /\ [][NextLock]_vars

\* An emitter on which three listeners were registered for "e1" and then one
\* for "e2", each with AddListener or Once; the caller then removes
\* listeners and reads counts.
InitOrder ==
  /\ \E l \in [1..3 -> Funcs], o \in [1..3 -> BOOLEAN] :
       events = [e \in EventNames |->
                   IF e = "e1"
                     THEN [i \in 1..3 |-> NewRecord(l[i], <<0, i>>, o[i])]
                     ELSE <<NewRecord("f", <<0, 4>>, FALSE)>>]
  /\ nextHandle = <<0, 4>>
  /\ recoverer = NoHook
  /\ maxListeners = DefaultMaxListeners
  /\ issued = [i \in 1..4 |-> <<0, i>>]
  /\ InitCallers
  /\ thr = NoThrottle

NextOrder ==
  \/ \E e \in EventNames, h \in HandleInputs :
        \/ RemoveListener("t1", e, h)
        \/ Off("t1", e, h)
  \/ \E e \in EventNames : GetListenerCount("t1", e)
  \/ GetListenerCountReturn("t1")

SpecOrder == InitOrder /\ [][NextOrder]_vars

----------------------------------------------------------------------------
(* The throttle of the func-keyed emitter (lines 1-199): Throttled wraps   *)
(* fn in a throttle with a zero lastCalled; Emit starts one goroutine that *)
(* runs throttle.handler, and handler reads and writes lastCalled without  *)
(* any lock. Time is a clock of ticks; the zero time.Time is 0.            *)

emitterVars == <<events, nextHandle, recoverer, maxListeners, stdout, issued,
                 pc, call, units, wg, crashed, started, ran, inv, removed,
                 mutex, hookLog, count, cancelled, held>>

\* emitter.Throttled(e, interval, fn) has been called once.
InitThrottle ==
  /\ NewEmitter
  /\ issued = <<>>
  /\ InitCallers
  /\ \E d \in Intervals :
       thr = [interval |-> d, now |-> 1, lastCalled |-> 0, calls |-> 0,
              runs |-> <<>>, pc |-> [t \in Threads |-> "idle"]]

\* time.Now() moves on.
Tick ==
  /\ thr.now < MaxTime
  /\ thr' = [thr EXCEPT !.now = @ + 1]
  /\ UNCHANGED emitterVars

\* Emit(e) called by thread t: the goroutine of the throttle enters handler.
ThrottledEmit(t) ==
  /\ thr.pc[t] = "idle"
  /\ thr.calls < MaxEmits
  /\ thr' = [thr EXCEPT !.calls = @ + 1, !.pc[t] = "test"]
  /\ UNCHANGED emitterVars

\* if t.lastCalled.IsZero() ... else if time.Now().Sub(t.lastCalled) <
\* t.interval { return }
HandlerTest(t) ==
  /\ thr.pc[t] = "test"
  /\ thr' = [thr EXCEPT !.pc[t] =
                IF thr.lastCalled = 0 THEN "first"
                ELSE IF thr.now - thr.lastCalled < thr.interval THEN "idle"
                ELSE "set"]
  /\ UNCHANGED emitterVars

\* t.lastCalled = time.Now() of the first invocation.
HandlerFirst(t) ==
  /\ thr.pc[t] = "first"
  /\ thr' = [thr EXCEPT !.lastCalled = thr.now, !.pc[t] = "set"]
  /\ UNCHANGED emitterVars

\* t.lastCalled = time.Now(); t.fn(args...)
HandlerRun(t) ==
  /\ thr.pc[t] = "set"
  /\ thr' = [thr EXCEPT !.lastCalled = thr.now,
                        !.runs = Append(@, thr.now),
                        !.pc[t] = "idle"]
  /\ UNCHANGED emitterVars

NextThrottle ==
  \/ Tick
  \/ \E t \in Threads : ThrottledEmit(t)
  \/ \E t \in Threads : HandlerTest(t)
  \/ \E t \in Threads : HandlerFirst(t)
  \/ \E t \in Threads : HandlerRun(t)

SpecThrottle == InitThrottle /\ [][NextThrottle]_vars

----------------------------------------------------------------------------
(* Vocabulary of the properties.                                           *)

InFlight(t) == call[t].kind # "none"

\* The Emit of thread t has joined all its goroutines and is about to return.
Joined(t) == pc[t] = "emitWait" /\ wg[t] = 0 /\ crashed = "no"

Finished(u) == u.pc \in {"returned", "recovered"}

Registered(h) == \E e \in DOMAIN events : h \in HandlesOf(events[e])

----------------------------------------------------------------------------
(* C1. A listener registered with Once is invoked at most once over the    *)
(* life of the emitter, also when two Emit calls for its event run         *)
(* concurrently: the body of a one-shot record is never entered a second   *)
(* time. The code removes the record only inside the dispatch unit, after  *)
(* the snapshot, so two emissions that both took their snapshot enter it   *)
(* twice.                                                                  *)

OnceAtMostOnce ==
  \A t \in Threads : \A i \in DOMAIN call[t].snap :
    call[t].snap[i].isOnce => Cnt(ran, call[t].snap[i].handle) <= 1

----------------------------------------------------------------------------
(* C2. Every Emit invokes each listener that was registered with           *)
(* AddListener / On on its event when the emission began exactly once,     *)
(* however many emissions run concurrently: while the emission runs no     *)
(* such record has been invoked twice and no record from outside the       *)
(* registry of that moment has been invoked at all, and when the emission  *)
(* has joined its goroutines each such record has been invoked once. An    *)
(* invocation that faults (section 4.2 of the spec) is an invocation.      *)

EmitInvokesEachOnce ==
  \A t \in Threads :
    pc[t] = "emitWait" =>
      /\ DOMAIN inv[t] \subseteq HandlesOf(call[t].reg)
      /\ \A r \in Range(call[t].reg) : ~r.isOnce => Cnt(inv[t], r.handle) <= 1
      /\ Joined(t) =>
           \A r \in Range(call[t].reg) : ~r.isOnce => Cnt(inv[t], r.handle) = 1

\* Two emissions of the same event in flight at once, one of them joined
\* with a listener of the AddListener kind in its registry.
ConcurrentEmitsJoined ==
  \E t \in Threads, u \in Threads :
    /\ t # u
    /\ Joined(t)
    /\ pc[u] = "emitWait"
    /\ call[u].event = call[t].event
    /\ \E r \in Range(call[t].reg) : ~r.isOnce /\ r \in Range(call[u].reg)

----------------------------------------------------------------------------
(* C3. With one calling thread: a one-shot listener's body is entered at   *)
(* most once in total; the emission whose invocation of it returns was the *)
(* one to enter it and has taken its record out of the registry; and when  *)
(* every invocation of an Emit has returned, the event's list is the list  *)
(* from the start of the emission without its one-shot records, so the     *)
(* count is back at its value from before the Once calls.                  *)

OnceThenSequentialEmits ==
  /\ \A t \in Threads : \A i \in DOMAIN call[t].snap :
       call[t].snap[i].isOnce => Cnt(ran, call[t].snap[i].handle) <= 1
  /\ \A t \in Threads : \A i \in DOMAIN units[t] :
       (call[t].snap[i].isOnce /\ units[t][i].pc = "returned") =>
         /\ Cnt(ran, call[t].snap[i].handle) = 1
         /\ ~Registered(call[t].snap[i].handle)
  /\ \A t \in Threads :
       (Joined(t) /\ \A i \in DOMAIN units[t] : units[t][i].pc = "returned") =>
         ListenersOf(events, call[t].event)
           = SelectSeq(call[t].reg, LAMBDA r : ~r.isOnce)

\* The second Emit of "e1" is in flight after the first has consumed a
\* one-shot listener: the handle was issued, nothing was removed through
\* RemoveListener, the body ran once and the record is gone.
SecondEmitAfterOnce ==
  /\ "e2" \notin DOMAIN events
  /\ removed = {}
  /\ started = 2
  /\ pc["t1"] = "emitWait"
  /\ call["t1"].event = "e1"
  /\ \E h \in Range(issued) :
       /\ ~Registered(h)
       /\ Cnt(ran, h) = 1
       /\ h \notin HandlesOf(call["t1"].snap)

----------------------------------------------------------------------------
(* C4. Once RemoveListener(E, h) has returned for a handle h that          *)
(* AddListener gave out for E, no record with handle h is registered, and  *)
(* an Emit or EmitSync that starts afterwards has no such record in its    *)
(* snapshot and invokes none.                                              *)

RemovedStaysRemoved ==
  /\ \A h \in removed : ~Registered(h)
  /\ \A t \in Threads :
       InFlight(t) =>
         /\ HandlesOf(call[t].snap) \cap call[t].since = {}
         /\ DOMAIN inv[t] \cap call[t].since = {}

\* An emission that began after a removal has invoked all it found.
EmittedAfterRemoval ==
  \E t \in Threads :
    /\ InFlight(t)
    /\ call[t].since # {}
    /\ call[t].snap # <<>>
    /\ \A i \in DOMAIN units[t] : Finished(units[t][i])

----------------------------------------------------------------------------
(* C5. RemoveListener(E, h) for an unknown event E or for a handle that no *)
(* record of E carries changes nothing: every list stays as it was and no  *)
(* entry for E appears; and removing twice leaves the registry as removing *)
(* once does.                                                              *)

RemoveTwiceIsRemoveOnce ==
  \A e \in EventNames, h \in HandleInputs :
    RemoveListenerOf(RemoveListenerOf(events, e, h), e, h)
      = RemoveListenerOf(events, e, h)

RemoveUnknownStep ==
  \A t \in Threads, e \in EventNames, h \in HandleInputs :
    (RemoveListener(t, e, h) /\ h \notin HandlesOf(ListenersOf(events, e)))
      => UNCHANGED vars

RemoveUnknownIsNoOp == []RemoveTwiceIsRemoveOnce /\ [][RemoveUnknownStep]_vars

\* A handle has been removed already, "e2" is unknown and "e1" holds another
\* record: a second removal, a removal from "e2" and a removal of a handle
\* never issued are all at hand.
RemovalsWithoutTarget ==
  /\ removed # {}
  /\ "e2" \notin DOMAIN events
  /\ "e1" \in DOMAIN events
  /\ Len(events["e1"]) = 1
  /\ NextHandleOf(nextHandle) \notin Range(issued)

----------------------------------------------------------------------------
(* C6. The same callback registered twice on an event makes two records    *)
(* with different handles; an Emit invokes a callback as often as the      *)
(* event holds records of it; RemoveListener(E, h) for a registered h      *)
(* shortens the list of E by exactly the record with handle h.             *)

HandlesDifferWithinEvent ==
  \A e \in DOMAIN events : \A i \in DOMAIN events[e], j \in DOMAIN events[e] :
    i # j => events[e][i].handle # events[e][j].handle

InvokedPerRecord ==
  \A t \in Threads :
    Joined(t) =>
      \A f \in ListenerValues :
        Cardinality({i \in DOMAIN call[t].snap :
                       /\ call[t].snap[i].fn = f
                       /\ Cnt(inv[t], call[t].snap[i].handle) = 1})
          = Cardinality({i \in DOMAIN call[t].reg : call[t].reg[i].fn = f})

RemoveExactlyOneStep ==
  \A t \in Threads, e \in EventNames, h \in HandleInputs :
    (RemoveListener(t, e, h) /\ h \in HandlesOf(ListenersOf(events, e))) =>
      /\ Len(events'[e]) = Len(events[e]) - 1
      /\ HandlesOf(events'[e]) = HandlesOf(events[e]) \ {h}
      /\ \A x \in DOMAIN events \ {e} : events'[x] = events[x]

SameCallbackTwice ==
  /\ []HandlesDifferWithinEvent
  /\ []InvokedPerRecord
  /\ [][RemoveExactlyOneStep]_vars

\* An Emit has joined after invoking a callback through both of its records.
CallbackInvokedTwice ==
  \E t \in Threads :
    /\ Joined(t)
    /\ Len(call[t].reg) = 2
    /\ call[t].reg[1].fn = call[t].reg[2].fn
    /\ \A i \in 1..2 : Cnt(inv[t], call[t].reg[i].handle) = 1

----------------------------------------------------------------------------
(* C7. No two listener records of the emitter carry the same handle, in    *)
(* whatever events they are registered. The counter is a uint32: the       *)
(* registration after handle 2^32 - 1 gets handle 0 and the next one gets  *)
(* handle 1 again, while the emitter's first record may still carry it.    *)

HandlesUnique ==
  \A e \in DOMAIN events, x \in DOMAIN events :
    \A i \in DOMAIN events[e], j \in DOMAIN events[x] :
      (e # x \/ i # j) => events[e][i].handle # events[x][j].handle

----------------------------------------------------------------------------
(* C8. As the claim has it: while the cap is 0 no call makes the list of   *)
(* an event longer.                                                        *)

CapOfZeroStep ==
  maxListeners = 0 =>
    \A e \in EventNames :
      GetListenerCountOf(events', e) <= GetListenerCountOf(events, e)

CapOfZeroAddStep ==
  \A t \in Threads, e \in EventNames, l \in ListenerValues, o \in BOOLEAN :
    (addListener(t, e, l, o) /\ maxListeners = 0 /\ crashed' = "no") =>
      /\ stdout' = stdout + 1
      /\ GetListenerCountOf(events', e) = GetListenerCountOf(events, e) + 1
      /\ events'[e][Len(events'[e])] = NewRecord(l, nextHandle', o)
      /\ issued' = Append(issued, nextHandle')

EmitTakesAllStep ==
  \A t \in Threads :
    (~InFlight(t) /\ InFlight(t)') =>
      call'[t].snap = ListenersOf(events, call'[t].event)

AllInvokedAtJoin ==
  \A t \in Threads :
    Joined(t) => \A r \in Range(call[t].snap) : Cnt(inv[t], r.handle) = 1

----------------------------------------------------------------------------
(* C9. Emit returns only when every dispatch unit of its snapshot has      *)
(* finished, by returning or by being recovered; until then its WaitGroup  *)
(* counts the units still to finish.                                       *)

EmitReturnStep ==
  \A t \in Threads :
    (pc[t] = "emitWait" /\ pc'[t] = "idle") =>
      \A i \in DOMAIN units[t] : Finished(units[t][i])

WaitGroupCounts ==
  \A t \in Threads :
    (pc[t] = "emitWait" /\ crashed = "no") =>
      wg[t] = Cardinality({i \in DOMAIN units[t] : ~Finished(units[t][i])})

EmitWaitsForAll == []WaitGroupCounts /\ [][EmitReturnStep]_vars

\* An Emit with two listeners has joined both and is about to return.
BothJoined ==
  \E t \in Threads :
    /\ Joined(t)
    /\ Len(units[t]) = 2
    /\ \A i \in 1..2 : Finished(units[t][i])

----------------------------------------------------------------------------
(* C10. With a recovery hook installed from the start of an Emit on, no    *)
(* fault of a listener ends the process: the faulting unit is recovered,   *)
(* its siblings go on, and when all units have finished Emit can return.   *)

FaultDoesNotStopSiblings ==
  \A t \in Threads :
    (pc[t] = "emitWait" /\ call[t].hooked) =>
      /\ \A i \in DOMAIN units[t] : units[t][i].pc # "died"
      /\ (crashed = "no" /\ \A i \in DOMAIN units[t] : Finished(units[t][i]))
           => ENABLED EmitReturn(t)

\* One listener has faulted and was recovered, its sibling has returned.
RecoveredBesideReturned ==
  \E t \in Threads :
    /\ Joined(t)
    /\ call[t].hooked
    /\ \E i \in DOMAIN units[t], j \in DOMAIN units[t] :
         units[t][i].pc = "recovered" /\ units[t][j].pc = "returned"

----------------------------------------------------------------------------
(* C11. While an Emit runs with a recovery hook that was installed when it *)
(* began: a unit whose listener faulted has made exactly one call of the   *)
(* hook, with the emitted event, the unit's own listener and the error of  *)
(* the fault; a unit that has not faulted has made none; and no fault is   *)
(* left without its hook call.                                             *)

HookCalledOncePerFault ==
  \A t \in Threads :
    (pc[t] = "emitWait" /\ call[t].hooked) =>
      \A i \in DOMAIN units[t] :
        /\ units[t][i].pc # "died"
        /\ units[t][i].pc = "recovered" =>
             /\ Len(units[t][i].hook) = 1
             /\ units[t][i].hook[1].event = call[t].event
             /\ units[t][i].hook[1].listener = call[t].snap[i].fn
             /\ units[t][i].hook[1].err \in {"mismatch", "panic"}
        /\ units[t][i].pc # "recovered" => units[t][i].hook = <<>>

\* Of two different listeners the second has panicked and the hook has been
\* called for it; the first has returned without a hook call.
HookCalledForSecond ==
  /\ Joined("t1")
  /\ call["t1"].hooked
  /\ Len(units["t1"]) = 2
  /\ call["t1"].snap[1].fn # call["t1"].snap[2].fn
  /\ units["t1"][1].pc = "returned"
  /\ units["t1"][2].pc = "recovered"
  /\ units["t1"][2].hook # <<>>
  /\ units["t1"][2].hook[1].err = "panic"

----------------------------------------------------------------------------
(* C12. As the claim has it: a listener that faults in a goroutine without *)
(* a deferred recover leaves the process running, so that its siblings go  *)
(* on and Emit can join.                                                   *)

NoHookFaultIsLocal ==
  \A t \in Threads :
    (pc[t] = "emitWait"
       /\ \E i \in DOMAIN units[t] :
            units[t][i].pc = "died" /\ ~units[t][i].guarded)
      => crashed = "no"

(* C12, amended. A fault in a goroutine of Emit that has no deferred       *)
(* recover is an unrecovered panic: the unit dies, the process ends with   *)
(* it, and from then on no sibling makes a step and no Emit returns.       *)

UnguardedFaultStep ==
  \A t \in Threads : \A i \in DOMAIN units[t] \cap DOMAIN units'[t] :
    (/\ call[t].kind = "Emit"
     /\ units[t][i].pc \notin {"recovered", "died"}
     /\ units'[t][i].pc \in {"recovered", "died"}
     /\ ~units'[t][i].guarded)
      => units'[t][i].pc = "died" /\ crashed' = "unrecovered"

DiedMeansCrashed ==
  \A t \in Threads : \A i \in DOMAIN units[t] :
    units[t][i].pc = "died" => crashed # "no"

NoHookFaultEndsProcess ==
  /\ []DiedMeansCrashed
  /\ [][crashed = "no" /\ UnguardedFaultStep]_vars

\* A listener has panicked without a hook while its sibling had not finished:
\* the sibling never will, and the WaitGroup stays above zero.
SiblingCutShort ==
  \E t \in Threads :
    /\ pc[t] = "emitWait"
    /\ crashed = "unrecovered"
    /\ wg[t] > 0
    /\ \E i \in DOMAIN units[t], j \in DOMAIN units[t] :
         /\ units[t][i].pc = "died"
         /\ ~units[t][i].guarded
         /\ units[t][j].pc \in {"start", "call"}

----------------------------------------------------------------------------
(* C13. A one-shot listener whose handle RemoveListener took out before    *)
(* any emission dispatched it is never invoked: its body is never entered, *)
(* its record is not registered, and no emission holds it or invokes it.   *)

CancelledOnceNeverRuns ==
  \A h \in cancelled :
    /\ Cnt(ran, h) = 0
    /\ ~Registered(h)
    /\ \A t \in Threads :
         h \notin HandlesOf(call[t].snap) /\ h \notin DOMAIN inv[t]

\* An emission that began after a one-shot listener was cancelled has run.
EmittedAfterCancel ==
  \E t \in Threads :
    /\ InFlight(t)
    /\ call[t].since \cap cancelled # {}
    /\ \A i \in DOMAIN units[t] : Finished(units[t][i])

----------------------------------------------------------------------------
(* C14. GetListenerCount(E) returns 0 for an event without an entry and    *)
(* otherwise the length of the list of E, which is the number of handles   *)
(* issued and still registered for E; the call writes nothing of the       *)
(* emitter and creates no entry.                                           *)

CountStep ==
  \A t \in Threads :
    (pc[t] = "idle" /\ pc'[t] = "counted") =>
      LET e == count'[t].event IN
      /\ count'[t].n = Len(ListenersOf(events, e))
      /\ count'[t].n = Cardinality({h \in Range(issued) :
                                      h \in HandlesOf(ListenersOf(events, e))})
      /\ e \notin DOMAIN events => count'[t].n = 0
      /\ UNCHANGED <<events, nextHandle, issued, recoverer, maxListeners,
                     stdout, removed, hookLog, mutex>>

CountOfCaller ==
  \A t \in Threads :
    pc[t] = "counted" =>
      count[t].n = Len(ListenersOf(events, count[t].event))

CountIsRegistered == []CountOfCaller /\ [][CountStep]_vars

\* Two listeners were registered on "e1", one is gone, and the count is 1.
CountAfterOneLeft ==
  /\ pc["t1"] = "counted"
  /\ count["t1"] = [event |-> "e1", n |-> 1]
  /\ Len(issued) = 2
  /\ "e2" \notin DOMAIN events

----------------------------------------------------------------------------
(* C15. SetMaxListeners writes the cap and nothing else: every list, the   *)
(* handle counter and the handles issued stay as they are, also when the   *)
(* new cap is below the number of listeners of an event.                   *)

SetMaxStep ==
  (maxListeners' # maxListeners
     \/ \E t \in Threads, max \in MaxChoices : SetMaxListeners(t, max))
    => UNCHANGED <<events, nextHandle, issued, recoverer, stdout, removed,
                   hookLog, mutex>>

SetMaxChangesOnlyCap == [][SetMaxStep]_vars

\* The cap is 0 while an event holds two listeners that were registered
\* without a warning, that is under a higher cap.
CapBelowCount ==
  /\ maxListeners = 0
  /\ stdout = 0
  /\ \E e \in DOMAIN events : Len(events[e]) = 2

----------------------------------------------------------------------------
(* C16. Emit and EmitSync on an event without an entry return at once, and *)
(* on an event with an empty list they start no unit and can return at     *)
(* once; in both cases the registry, the handle counter and the listeners' *)
(* run counts stay as they are and nothing fails.                          *)

EmitNothingStep ==
  \A t \in Threads, e \in EventNames :
    ((Emit(t, e) \/ EmitSync(t, e)) /\ GetListenerCountOf(events, e) = 0) =>
      /\ UNCHANGED <<events, nextHandle, issued, ran, crashed, hookLog,
                     removed, mutex>>
      /\ units'[t] = <<>>
      /\ wg'[t] = 0
      /\ e \notin DOMAIN events => pc'[t] = "idle"

EmptyEmissionReturns ==
  \A t \in Threads :
    (InFlight(t) /\ call[t].snap = <<>> /\ crashed = "no") =>
      /\ units[t] = <<>>
      /\ inv[t] = NoCount
      /\ ENABLED (EmitReturn(t) \/ EmitSyncReturn(t))

EmitWithoutListeners == []EmptyEmissionReturns /\ [][EmitNothingStep]_vars

\* An emission is in flight on an event whose listeners have all been removed.
EmissionOnEmptiedEvent ==
  /\ InFlight("t1")
  /\ call["t1"].snap = <<>>
  /\ removed # {}
  /\ call["t1"].event \in DOMAIN events

----------------------------------------------------------------------------
(* C17. EmitSync starts listener i+1 only when listener i has returned,    *)
(* and it returns only when every listener of its snapshot has returned.   *)
(* The recover functions are deferred to the return of EmitSync itself: a  *)
(* recovered panic of one listener ends the call and the listeners after   *)
(* it are never invoked.                                                   *)

EmitSyncOrder ==
  \A t \in Threads :
    pc[t] \in {"syncLoop", "syncUnwound"} =>
      \A i \in DOMAIN units[t] :
        units[t][i].pc # "start" =>
          \A j \in 1..(i - 1) : units[t][j].pc = "returned"

EmitSyncReturnStep ==
  \A t \in Threads :
    (pc[t] \in {"syncLoop", "syncUnwound"} /\ pc'[t] = "idle") =>
      \A i \in DOMAIN units[t] : units[t][i].pc = "returned"

EmitSyncRunsAllInOrder == []EmitSyncOrder /\ [][EmitSyncReturnStep]_vars

----------------------------------------------------------------------------
(* C18. A registration of a value that is no function panics with          *)
(* ErrNoneFunction when no recovery hook is set, leaving the registry as   *)
(* it was; with a hook it makes exactly one call of the hook, with the     *)
(* event, the value and ErrNoneFunction. A registration of a function      *)
(* makes no hook call and does not panic.                                  *)

RejectStep ==
  \A t \in Threads, e \in EventNames, o \in BOOLEAN :
    /\ addListener(t, e, NotFunc, o) =>
         IF recoverer = NoHook
           THEN /\ crashed' = "ErrNoneFunction"
                /\ UNCHANGED <<events, nextHandle, issued, hookLog>>
           ELSE /\ crashed' = "no"
                /\ hookLog' = Append(hookLog, [event |-> e, listener |-> NotFunc,
                                               err |-> "ErrNoneFunction"])
    /\ \A l \in Funcs :
         addListener(t, e, l, o) => UNCHANGED <<hookLog, crashed>>

NonFunctionRejected == [][RejectStep]_vars

\* The hook has been called once, for a value that is no function.
HookCalledForNonFunction ==
  /\ crashed = "no"
  /\ Len(hookLog) = 1
  /\ hookLog[1].listener = NotFunc
  /\ hookLog[1].err = "ErrNoneFunction"

----------------------------------------------------------------------------
(* C19. An emission works on the list it read under the mutex: it invokes  *)
(* only records that were registered when it began, each at most once, so  *)
(* a listener added later, by another thread or by a listener of the       *)
(* emission, is not invoked by it; an emission takes every record that is  *)
(* registered when it begins, and an Emit that joins has invoked them all. *)

InvokesOnlySnapshot ==
  \A t \in Threads :
    InFlight(t) =>
      /\ DOMAIN inv[t] \subseteq HandlesOf(call[t].reg)
      /\ \A h \in DOMAIN inv[t] : inv[t][h] <= 1

TakesRegisteredStep ==
  \A t \in Threads :
    (~InFlight(t) /\ InFlight(t)') =>
      HandlesOf(call'[t].snap) = HandlesOf(ListenersOf(events, call'[t].event))

JoinedInvokedAll ==
  \A t \in Threads :
    Joined(t) => \A h \in HandlesOf(call[t].reg) : Cnt(inv[t], h) = 1

SnapshotIsStable ==
  /\ []InvokesOnlySnapshot
  /\ []JoinedInvokedAll
  /\ [][TakesRegisteredStep]_vars

\* An Emit has joined while the event holds a record that was added after it
\* began.
AddedDuringEmit ==
  \E t \in Threads :
    /\ Joined(t)
    /\ call[t].snap # <<>>
    /\ \E h \in HandlesOf(ListenersOf(events, call[t].event)) :
         h \notin HandlesOf(call[t].reg)

----------------------------------------------------------------------------
(* C20. While a listener body runs the mutex is free, so RemoveListener    *)
(* called from inside it goes through; the emission invokes no record      *)
(* outside its snapshot and none twice, and when it runs to its end (Emit  *)
(* has joined, the loop of EmitSync has ended) it has invoked every record *)
(* of its snapshot exactly once; what was removed is no longer registered. *)

RemovalInsideListenerIsSafe ==
  /\ \A t \in Threads : \A i \in DOMAIN units[t] :
       (InListener(t, i) /\ UnitRecord(t, i).fn \in Funcs) =>
         \A h \in HandlesOf(call[t].snap) :
           ENABLED RemoveListenerIn(t, i, call[t].event, h)
  /\ \A t \in Threads :
       InFlight(t) =>
         /\ DOMAIN inv[t] \subseteq HandlesOf(call[t].snap)
         /\ \A h \in HandlesOf(call[t].snap) : Cnt(inv[t], h) <= 1
         /\ (Joined(t) \/ (pc[t] = "syncLoop" /\ crashed = "no"
                             /\ \A i \in DOMAIN units[t] :
                                  units[t][i].pc = "returned"))
              => \A h \in HandlesOf(call[t].snap) : Cnt(inv[t], h) = 1
  /\ \A h \in removed : ~Registered(h)

\* A listener body that has called the emitter is still running, a record of
\* its snapshot was removed during the emission, and its sibling has returned.
RemovedWhileRunning ==
  /\ InFlight("t1")
  /\ Len(call["t1"].snap) = 2
  /\ Len(issued) = 2
  /\ HandlesOf(call["t1"].snap) \cap (removed \ call["t1"].since) # {}
  /\ \E i \in 1..2, j \in 1..2 :
       units["t1"][i].pc = "body" /\ units["t1"][j].pc = "returned"

----------------------------------------------------------------------------
(* C21. Emit and EmitSync give the mutex back before any listener is       *)
(* invoked: whenever a listener body runs, the mutex is free and each call *)
(* the body can make on the emitter (AddListener, RemoveListener,          *)
(* GetListenerCount, SetMaxListeners, Emit) can take it; and an emission   *)
(* in flight in a living process always has a next step, so the dispatch   *)
(* never deadlocks.                                                        *)

BodyCallsGetTheLock ==
  \A t \in Threads : \A i \in DOMAIN units[t] :
    (InListener(t, i) /\ UnitRecord(t, i).fn \in Funcs) =>
      /\ mutex = Free
      /\ ENABLED GetListenerCountIn(t, i, call[t].event)
      /\ \A max \in MaxChoices : ENABLED SetMaxListenersIn(t, i, max)
      /\ \A h \in HandleInputs : ENABLED RemoveListenerIn(t, i, call[t].event, h)
      /\ Len(issued) < MaxHandles =>
           \A l \in Funcs : ENABLED AddListenerIn(t, i, call[t].event, l)
      /\ started < MaxEmits => ENABLED EmitIn(t, i, "e2")

DispatchGoesOn ==
  \A t \in Threads :
    (InFlight(t) /\ crashed = "no") =>
      \/ \E i \in DOMAIN units[t] :
            \/ ENABLED UnitStart(t, i)
            \/ ENABLED UnitRemove(t, i)
            \/ ENABLED UnitCall(t, i)
      \/ ENABLED EmitReturn(t)
      \/ ENABLED EmitSyncReturn(t)

ListenersMayCallEmitter == BodyCallsGetTheLock /\ DispatchGoesOn

\* A listener body is running after it has read a count and set the cap to
\* zero, and its sibling is still waiting to start.
BodyCalledEmitter ==
  /\ Len(call["t1"].snap) = 2
  /\ count["t1"] # NoResult
  /\ maxListeners = 0
  /\ \E i \in 1..2, j \in 1..2 :
       units["t1"][i].pc = "body" /\ units["t1"][j].pc = "start"

----------------------------------------------------------------------------
(* C22. Calling the recovery hook never deadlocks against the registry     *)
(* lock: while a hook that the emitter has called is running, the calling  *)
(* thread does not hold the mutex, so a RemoveListener call made by the    *)
(* hook can take it. Stated for the call that addListener makes for a      *)
(* value that is no function; the deferred functions of Emit and EmitSync  *)
(* call the hook after the Unlock of the emission.                         *)

HookRunsUnlocked ==
  \A t \in Threads :
    (pc[t] = "locked" /\ held[t].stage = "hook" /\ crashed = "no") =>
      /\ mutex # t
      /\ \A h \in HandleInputs :
           ENABLED RemoveListenerInHook(t, held[t].event, h)

----------------------------------------------------------------------------
(* C23. With a recovery hook installed, a fault of one listener during     *)
(* EmitSync is caught within that listener's turn: EmitSync is not unwound *)
(* by it, and the listener that follows the faulty one in the snapshot is  *)
(* the next to be invoked.                                                 *)

EmitSyncFaultIsLocal ==
  \A t \in Threads :
    (call[t].kind = "EmitSync" /\ crashed = "no") =>
      /\ pc[t] # "syncUnwound"
      /\ \A i \in DOMAIN units[t] :
           (units[t][i].pc = "recovered" /\ i + 1 \in DOMAIN units[t]
              /\ \A j \in 1..(i - 1) : units[t][j].pc = "returned")
             => (units[t][i + 1].pc # "start" \/ ENABLED UnitStart(t, i + 1))

----------------------------------------------------------------------------
(* C24. Concurrent AddListener, Once, RemoveListener, SetMaxListeners and  *)
(* Emit calls take effect on the registry one at a time and no update is   *)
(* lost: every change of the registry is one whole addition (the record    *)
(* with the next handle appended to the list as it stands) or one whole    *)
(* removal applied to the list as it stands; a record leaves its list only *)
(* by the RemoveListener call that names its handle, made by a caller or   *)
(* by the dispatch of a one-shot record; the counter has counted every     *)
(* addition; and each list holds its records in the order of addition.     *)

RegistryStep ==
  events' # events =>
    \/ /\ nextHandle' = NextHandleOf(nextHandle)
       /\ \E e \in EventNames, l \in ListenerValues, o \in BOOLEAN :
            events' = AppendRecord(events, e, NewRecord(l, nextHandle', o))
    \/ /\ nextHandle' = nextHandle
       /\ \E e \in DOMAIN events : \E h \in HandlesOf(events[e]) :
            events' = RemoveListenerOf(events, e, h)

NothingLost ==
  \A e \in DOMAIN events : \A r \in Range(events[e]) :
    \/ r \in Range(ListenersOf(events', e))
    \/ \E t \in Threads :
         /\ held[t].op = "remove" /\ held'[t].op = "none"
         /\ held[t].event = e /\ held[t].handle = r.handle
    \/ \E t \in Threads : \E i \in DOMAIN units[t] :
         /\ units[t][i].pc = "remove" /\ units'[t][i].pc = "call"
         /\ r.isOnce
         /\ call[t].event = e /\ UnitRecord(t, i).handle = r.handle

PositionOf(s, x) == CHOOSE k \in DOMAIN s : s[k] = x

AdditionsInOrder ==
  \A e \in DOMAIN events :
    /\ HandlesOf(events[e]) \subseteq Range(issued)
    /\ \A i \in DOMAIN events[e] : \A j \in DOMAIN events[e] :
         i < j => PositionOf(issued, events[e][i].handle)
                    < PositionOf(issued, events[e][j].handle)

CounterCountsAdditions == nextHandle = <<0, Len(issued)>>

RegistrySerialized ==
  /\ [][RegistryStep]_vars
  /\ [][NothingLost]_vars
  /\ []AdditionsInOrder
  /\ []CounterCountsAdditions

\* Both threads have registered, one record was removed again, and a thread
\* is inside the locked region of a further removal while the other has an
\* emission in flight.
ContendedRegistry ==
  /\ Len(issued) = 2
  /\ removed # {}
  /\ Len(events["e1"]) = 1
  /\ held["t1"].op = "remove"
  /\ mutex = "t1"
  /\ InFlight("t2")

----------------------------------------------------------------------------
(* C25. A one-shot record is out of the registry before its callback       *)
(* starts: whenever the dispatch unit of a one-shot record is at the call  *)
(* of the callback, inside it or past its return, the record's handle is   *)
(* not registered, and a GetListenerCount made from inside the callback    *)
(* returns the number of the event's records without it.                   *)

OnceGoneBeforeCall ==
  \A t \in Threads : \A i \in DOMAIN units[t] :
    (UnitRecord(t, i).isOnce /\ units[t][i].pc \in {"call", "body", "returned"})
      => ~Registered(UnitRecord(t, i).handle)

CountInsideOnceStep ==
  \A t \in Threads : \A i \in DOMAIN units[t] :
    (GetListenerCountIn(t, i, call[t].event) /\ UnitRecord(t, i).isOnce) =>
      count'[t].n =
        Cardinality(HandlesOf(ListenersOf(events, call[t].event))
                      \ {UnitRecord(t, i).handle})

----------------------------------------------------------------------------
(* C26. Handles are allocated in strictly increasing order and handle 0 is *)
(* never issued, however many registrations the 32-bit counter has made:   *)
(* every step that changes the counter makes it greater, and 0 is not      *)
(* among the handles addListener has returned.                             *)

HandleLess(a, b) == a[1] < b[1] \/ (a[1] = b[1] /\ a[2] < b[2])

CounterGrows == nextHandle' # nextHandle => HandleLess(nextHandle, nextHandle')

HandlesStrictlyIncrease ==
  /\ [][CounterGrows]_vars
  /\ [](ZeroHandle \notin Range(issued))

----------------------------------------------------------------------------
(* C27. A throttled callback runs on its first invocation and afterwards   *)
(* only when at least the interval has passed since it last ran: any two   *)
(* runs of fn are at least one interval apart, also when Emit is called    *)
(* concurrently for the event.                                             *)

ThrottleSpacing ==
  \A i \in DOMAIN thr.runs : \A j \in DOMAIN thr.runs :
    i < j => thr.runs[j] - thr.runs[i] >= thr.interval

----------------------------------------------------------------------------
(* C28. A value rejected as no function is never registered: the           *)
(* registration that reports it to the hook leaves the lists and the       *)
(* handle counter as they were, no list ever holds a record of such a      *)
(* value, and no emission has one in its snapshot to invoke.               *)

RejectionKeepsRegistry ==
  hookLog' # hookLog => UNCHANGED <<events, nextHandle>>

NoRecordOfNonFunction ==
  /\ \A e \in DOMAIN events : \A r \in Range(events[e]) : r.fn # NotFunc
  /\ \A t \in Threads : \A r \in Range(call[t].snap) : r.fn # NotFunc

RejectedNeverRegistered ==
  /\ [][RejectionKeepsRegistry]_vars
  /\ []NoRecordOfNonFunction

----------------------------------------------------------------------------
(* C29. Every read and every write of the recovery-hook field is made with *)
(* the mutex held by the thread that makes it: a step that writes the      *)
(* field (RecoverWith) or reads it (the start of a dispatch unit, which    *)
(* decides on its deferred recover) is taken only when no other thread is  *)
(* inside a locked region.                                                 *)

HookFieldAccessStep ==
  /\ recoverer' # recoverer => mutex = Free
  /\ \A t \in Threads : \A i \in DOMAIN units[t] :
       UnitStart(t, i) => mutex = Free

HookFieldUnderLock == [][HookFieldAccessStep]_vars

----------------------------------------------------------------------------
(* C30. RemoveListener(E, h) changes nothing but the list of E: the lists  *)
(* of the other events, the handle counter, the cap and the hook stay as   *)
(* they were; the list of E afterwards holds exactly its records with a    *)
(* handle other than h, and any two of them stand in the order they stood  *)
(* in before.                                                              *)

RemoveFrameStep ==
  \A e \in EventNames, h \in HandleInputs :
    RemoveListener("t1", e, h) =>
      /\ UNCHANGED <<nextHandle, maxListeners, recoverer, stdout, issued>>
      /\ DOMAIN events' = DOMAIN events
      /\ \A x \in DOMAIN events \ {e} : events'[x] = events[x]
      /\ Range(events'[e]) = {r \in Range(events[e]) : r.handle # h}
      /\ Len(events'[e]) = Cardinality({r \in Range(events[e]) : r.handle # h})
      /\ \A i \in DOMAIN events'[e] : \A j \in DOMAIN events'[e] :
           i < j => \E p \in DOMAIN events[e] : \E q \in DOMAIN events[e] :
                      /\ p < q
                      /\ events[e][p] = events'[e][i]
                      /\ events[e][q] = events'[e][j]

RemoveChangesOnlyItsList == [][RemoveFrameStep]_vars

\* The first of three listeners of "e1" has been removed: the second and
\* the third are left, in that order, and the listener of "e2" is in place.
FirstOfThreeRemoved ==
  /\ removed = {FirstHandle}
  /\ Len(events["e1"]) = 2
  /\ events["e1"][1].handle = <<0, 2>>
  /\ events["e1"][2].handle = <<0, 3>>
  /\ Len(events["e2"]) = 1

----------------------------------------------------------------------------
(* C31. Emit and EmitSync always return the emitter they were called on,   *)
(* also when a listener faulted and the recovery hook handled the fault:   *)
(* at every return of an emission the value handed back is the emitter.    *)

ReturnsEmitterStep ==
  \A t \in Threads :
    (EmitReturn(t) \/ EmitSyncReturn(t)) => ResultOf(t) = "emitter"

EmissionReturnsEmitter == [][ReturnsEmitterStep]_vars

----------------------------------------------------------------------------
(* C32. A one-shot listener is consumed by the first emission that         *)
(* dispatches it even if its invocation faults: once the dispatch unit of  *)
(* a one-shot record has ended in a fault that the hook handled, the       *)
(* record's handle is no longer registered.                                *)

FaultedOnceIsConsumed ==
  \A t \in Threads : \A i \in DOMAIN units[t] :
    (crashed = "no" /\ UnitRecord(t, i).isOnce /\ units[t][i].pc = "recovered")
      => ~Registered(UnitRecord(t, i).handle)

====
